---- MODULE Spec2Model ----
(***************************************************************************)
(* pydda/vis/barb_plot.py: the four wind-barb cross-section plotters       *)
(*   plot_horiz_xsection_barbs, plot_horiz_xsection_barbs_map,             *)
(*   plot_xz_xsection_barbs, plot_yz_xsection_barbs.                       *)
(*                                                                         *)
(* A call is modelled as the sequence of drawing operations it issues on   *)
(* its axis (the variable ops), step by step in source order.  Arrays are  *)
(* 0-based functions, as in numpy.  Lengths are in km (the code divides    *)
(* the metre arrays by 1e3), longitudes and latitudes in tenths of a       *)
(* degree, alpha in percent.  A Python None is <<>> and a value v passed   *)
(* for an optional argument is <<v>>.                                      *)
(***************************************************************************)
EXTENDS Integers, Sequences, FiniteSets, TLC

\* ------------------------------------------------------------------ bounds
MaxGrids == 2
NZ == 2
NY == 3
NX == 3
MaxAxes == 2

None == <<>>
Some(v) == <<v>>

FuncNames == {"horiz", "map", "xz", "yz"}

\* ------------------------------------------------- binary64 arithmetic
\* int((1 / dx) * barb_spacing_km) is evaluated in IEEE-754 binary64.  A
\* significand is kept as four little-endian limbs of 18 bits; a float is
\* [m |-> limbs, e |-> exponent], of value m * 2^e.
MantBits == 53
LimbBits == 18
Limb == 2 ^ LimbBits

RECURSIVE BitLen(_)
BitLen(x) == IF x = 0 THEN 0 ELSE 1 + BitLen(x \div 2)

LimbAt(n, i) == IF i \in 1..4 THEN n[i] ELSE 0

NumBitLen(n) ==
    IF n[4] # 0 THEN 3 * LimbBits + BitLen(n[4])
    ELSE IF n[3] # 0 THEN 2 * LimbBits + BitLen(n[3])
    ELSE IF n[2] # 0 THEN LimbBits + BitLen(n[2])
    ELSE BitLen(n[1])

Pow2Num(k) == [i \in 1..4 |-> IF i - 1 = k \div LimbBits THEN 2 ^ (k % LimbBits) ELSE 0]

\* n \div d and n % d for a small divisor d, limb by limb from the top
DivSmall(n, d) ==
    LET t4 == n[4]
        t3 == (t4 % d) * Limb + n[3]
        t2 == (t3 % d) * Limb + n[2]
        t1 == (t2 % d) * Limb + n[1]
    IN  [q |-> <<t1 \div d, t2 \div d, t3 \div d, t4 \div d>>, r |-> t1 % d]

\* n * s for a small factor s
MulSmall(n, s) ==
    LET c1 == n[1] * s
        c2 == n[2] * s + c1 \div Limb
        c3 == n[3] * s + c2 \div Limb
        c4 == n[4] * s + c3 \div Limb
    IN  <<c1 % Limb, c2 % Limb, c3 % Limb, c4>>

IncNum(n) ==
    LET c1 == n[1] + 1
        c2 == n[2] + c1 \div Limb
        c3 == n[3] + c2 \div Limb
        c4 == n[4] + c3 \div Limb
    IN  <<c1 % Limb, c2 % Limb, c3 % Limb, c4>>

ShiftRight(n, t) ==
    LET a == t \div LimbBits
        b == t % LimbBits
    IN  [i \in 1..4 |->
            LimbAt(n, i + a) \div (2 ^ b)
            + (LimbAt(n, i + a + 1) % (2 ^ b)) * (2 ^ (LimbBits - b))]

\* 1 / d for an integer-valued d >= 1, rounded to nearest, ties to even
FloatRecip(d) ==
    LET k == (MantBits - 1) + BitLen(d - 1)
        dv == DivSmall(Pow2Num(k), d)
        up == 2 * dv.r > d \/ (2 * dv.r = d /\ dv.q[1] % 2 = 1)
    IN  [m |-> IF up THEN IncNum(dv.q) ELSE dv.q, e |-> -k]

\* f * s for an integer-valued s >= 1, rounded to nearest, ties to even
FloatMul(f, s) ==
    LET p == MulSmall(f.m, s)
        t == NumBitLen(p) - MantBits
    IN  IF t <= 0 THEN [m |-> p, e |-> f.e]
        ELSE LET q == ShiftRight(p, t)
                 low == p[1] % (2 ^ t)
                 half == 2 ^ (t - 1)
                 up == low > half \/ (low = half /\ q[1] % 2 = 1)
             IN  [m |-> IF up THEN IncNum(q) ELSE q, e |-> f.e + t]

\* int(f): truncation of a small positive float
FloatToInt(f) ==
    LET q == ShiftRight(f.m, -f.e)
    IN  q[1] + q[2] * Limb

\* int((1 / d) * spacing_km)
BarbDensity(d, spacing_km) == FloatToInt(FloatMul(FloatRecip(d), spacing_km))

\* --------------------------------------------------------------- arrays
Array3(F(_, _, _)) ==
    [k \in 0..(NZ - 1) |-> [j \in 0..(NY - 1) |-> [i \in 0..(NX - 1) |-> F(k, j, i)]]]

\* the number of indices 0, k, 2k, ... below n: the length of a[::k]
SliceLen(n, k) == (n + k - 1) \div k

\* a[level, ::ky, ::kx]
HSlice(a, level, ky, kx) ==
    [r \in 0..(SliceLen(NY, ky) - 1) |->
        [c \in 0..(SliceLen(NX, kx) - 1) |-> a[level][r * ky][c * kx]]]

\* a[::kz, level, ::kx]
XZSlice(a, level, kz, kx) ==
    [r \in 0..(SliceLen(NZ, kz) - 1) |->
        [c \in 0..(SliceLen(NX, kx) - 1) |-> a[r * kz][level][c * kx]]]

\* a[::kz, ::ky, level]
YZSlice(a, level, kz, ky) ==
    [r \in 0..(SliceLen(NZ, kz) - 1) |->
        [c \in 0..(SliceLen(NY, ky) - 1) |-> a[r * kz][c * ky][level]]]

\* a2[::ky, ::kx] of the 2-D array a2
Slice2(a2, ky, kx) ==
    [r \in 0..(SliceLen(NY, ky) - 1) |->
        [c \in 0..(SliceLen(NX, kx) - 1) |-> a2[r * ky][c * kx]]]

Values3(a) == {a[k][j][i] : k \in 0..(NZ - 1), j \in 0..(NY - 1), i \in 0..(NX - 1)}
Values2(a2) == UNION {{a2[r][c] : c \in DOMAIN a2[r]} : r \in DOMAIN a2}

SetMin(S) == CHOOSE m \in S : \A o \in S : m <= o
SetMax(S) == CHOOSE m \in S : \A o \in S : m >= o
SeqMin(s) == SetMin({s[n] : n \in DOMAIN s})
SeqMax(s) == SetMax({s[n] : n \in DOMAIN s})

\* a / 1e3 on an array of whole kilometres given in metres
Km(a) == Array3(LAMBDA k, j, i : a[k][j][i] \div 1000)

\* np.ma.sqrt(p ** 2 + q ** 2), element by element (the data make it exact)
Hypot(p, q) == CHOOSE r \in 0..(p + q) : r * r <= p * p + q * q /\ (r + 1) * (r + 1) > p * p + q * q
Speed(p2, q2) == [r \in DOMAIN p2 |-> [c \in DOMAIN p2[r] |-> Hypot(p2[r][c], q2[r][c])]]

\* np.ma.masked_where(a2 < lo, a2)
MaskedBelow(a2, lo) ==
    [data |-> a2, mask |-> [r \in DOMAIN a2 |-> [c \in DOMAIN a2[r] |-> a2[r][c] < lo]]]

\* math.radians, in microradians
Radians(deg) == (deg * 3141593) \div 180

\* ------------------------------------------------------- the Grids argument
\* Grids is given by G = [n, dx, dy, dh, bg, bca]: n grids on one common
\* mesh of spacings dx, dy (horizontal) and dh (vertical), grid g holding the
\* background pattern G.bg[g + 1]; G.bca = <<min_bca, max_bca>> in degrees.
Cell(k, j, i) == 1 + k * NY * NX + j * NX + i
NCells == NZ * NY * NX

\* Grids[idx] with Python's negative indices
PyIndex(n, idx) == IF idx < 0 THEN n + idx ELSE idx

point_x(G, g) == Array3(LAMBDA k, j, i : 1000 * (i - 1) * G.dx)
point_y(G, g) == Array3(LAMBDA k, j, i : 1000 * (j - 1) * G.dy)
point_altitude(G, g) == Array3(LAMBDA k, j, i : 1000 * k * G.dh)
point_longitude(G, g) == Array3(LAMBDA k, j, i : (i - 970) - k)
point_latitude(G, g) == Array3(LAMBDA k, j, i : (j + 360) + k)

BgPattern(p, k, j, i) ==
    CASE p = 1 -> Cell(k, j, i)
      [] p = 2 -> NCells + 1 - Cell(k, j, i)
      [] OTHER -> (7 * Cell(k, j, i)) % 11

\* Grids[g].fields[name]["data"]; u, v, w are 3c, 4c, 60 - c m/s at cell c
FieldData(G, g, name) ==
    CASE name = "u" -> Array3(LAMBDA k, j, i : 3 * (Cell(k, j, i) + g))
      [] name = "v" -> Array3(LAMBDA k, j, i : 4 * (Cell(k, j, i) + g))
      [] name = "w" -> Array3(LAMBDA k, j, i : 60 - (Cell(k, j, i) + g))
      [] OTHER -> Array3(LAMBDA k, j, i : BgPattern(G.bg[g + 1], k, j, i))

\* Grids[g].fields[background_field]["long_name"] and ["units"]
LongName(G, g) == <<"reflectivity of grid", g>>
Units(G, g) == "dBZ"

\* retrieval.get_bca(Grids[j] radar, Grids[i] radar, Grids[j] points at level 0)
get_bca(G, j, i) == <<"bca", j, i>>

\* ------------------------------------------------ the locals of one call
\* c is the record of the call's arguments (c.func names the function).

\* np.ma.stack([x.fields[name]["data"] for x in Grids[0..n-1]]).max(axis=0)
RECURSIVE StackMax(_, _, _)
StackMax(G, name, n) ==
    IF n = 1 THEN FieldData(G, 0, name)
    ELSE LET rest == StackMax(G, name, n - 1)
             last == FieldData(G, n - 1, name)
         IN  Array3(LAMBDA k, j, i :
                 IF last[k][j][i] > rest[k][j][i] THEN last[k][j][i] ELSE rest[k][j][i])

\* faulty variant: a negative bg_grid_no indexes the grid list from its end
grid_bg_indexed(c) ==
    FieldData(c.Grids, PyIndex(c.Grids.n, c.bg_grid_no), c.background_field)

grid_bg(c) ==
    IF c.bg_grid_no > -1
    THEN FieldData(c.Grids, c.bg_grid_no, c.background_field)
    ELSE StackMax(c.Grids, c.background_field, c.Grids.n)

vmin(c) == IF c.vmin = None THEN SetMin(Values3(grid_bg(c))) ELSE c.vmin[1]
vmax(c) == IF c.vmax = None THEN SetMax(Values3(grid_bg(c))) ELSE c.vmax[1]

grid_h(c) == Km(point_altitude(c.Grids, 0))
grid_x(c) == Km(point_x(c.Grids, 0))
grid_y(c) == Km(point_y(c.Grids, 0))
grid_lat(c) == point_latitude(c.Grids, 0)[c.level]
grid_lon(c) == point_longitude(c.Grids, 0)[c.level]

\* np.diff(grid_x, axis=2)[0, 0, 0] and np.diff(grid_y, axis=1)[0, 0, 0]
diff_x(c) == grid_x(c)[0][0][1] - grid_x(c)[0][0][0]
diff_y(c) == grid_y(c)[0][1][0] - grid_y(c)[0][0][0]

u(c) == FieldData(c.Grids, 0, c.u_field)
v(c) == FieldData(c.Grids, 0, c.v_field)
w(c) == FieldData(c.Grids, 0, c.w_field)

\* the full 2-D cross-sections (strides 1)
HFull(a, c) == HSlice(a, c.level, 1, 1)
XZFull(a, c) == XZSlice(a, c.level, 1, 1)
YZFull(a, c) == YZSlice(a, c.level, 1, 1)

\* ------------------------------------------------ background mesh and barbs
HorizMesh(c) ==
    [op |-> "pcolormesh", x |-> HFull(grid_x(c), c), y |-> HFull(grid_y(c), c),
     data |-> HFull(grid_bg(c), c),
     kw |-> [cmap |-> c.cmap, vmin |-> vmin(c), vmax |-> vmax(c)]]

MapMesh(c) ==
    [op |-> "pcolormesh", x |-> grid_lon(c), y |-> grid_lat(c),
     data |-> HFull(grid_bg(c), c),
     kw |-> [cmap |-> c.cmap, transform |-> "PlateCarree", zorder |-> 0,
             vmin |-> vmin(c), vmax |-> vmax(c)]]

XZMesh(c) ==
    [op |-> "pcolormesh", x |-> XZFull(grid_x(c), c), y |-> XZFull(grid_h(c), c),
     data |-> XZFull(grid_bg(c), c),
     kw |-> [cmap |-> c.cmap, vmin |-> vmin(c), vmax |-> vmax(c)]]

YZMesh(c) ==
    [op |-> "pcolormesh", x |-> YZFull(grid_y(c), c), y |-> YZFull(grid_h(c), c),
     data |-> YZFull(grid_bg(c), c),
     kw |-> [cmap |-> c.cmap, vmin |-> vmin(c), vmax |-> vmax(c)]]

\* barb_density_x and barb_density_y (barb_density_z), as the code computes them
HorizBarbDensity(c) ==
    [x |-> BarbDensity(diff_x(c), c.barb_spacing_x_km),
     y |-> BarbDensity(diff_y(c), c.barb_spacing_y_km)]

XZBarbDensity(c) ==
    [x |-> BarbDensity(diff_x(c), c.barb_spacing_x_km),
     z |-> BarbDensity(diff_y(c), c.barb_spacing_z_km)]

YZBarbDensity(c) ==
    [x |-> BarbDensity(diff_x(c), c.barb_spacing_y_km),
     z |-> BarbDensity(diff_y(c), c.barb_spacing_z_km)]

\* a slice step of 0 raises ValueError ("slice step cannot be zero")
BarbStepsOf(c) ==
    CASE c.func = "xz" -> {XZBarbDensity(c).x, XZBarbDensity(c).z}
      [] c.func = "yz" -> {YZBarbDensity(c).x, YZBarbDensity(c).z}
      [] OTHER -> {HorizBarbDensity(c).x, HorizBarbDensity(c).y}

HorizBarbs(c) ==
    LET d == HorizBarbDensity(c)
    IN  [op |-> "barbs",
         x |-> HSlice(grid_x(c), c.level, d.y, d.x),
         y |-> HSlice(grid_y(c), c.level, d.y, d.x),
         U |-> HSlice(u(c), c.level, d.y, d.x),
         V |-> HSlice(v(c), c.level, d.y, d.x)]

MapBarbs(c) ==
    LET d == HorizBarbDensity(c)
    IN  [op |-> "barbs",
         x |-> Slice2(grid_lon(c), d.y, d.x),
         y |-> Slice2(grid_lat(c), d.y, d.x),
         U |-> HSlice(u(c), c.level, d.y, d.x),
         V |-> HSlice(v(c), c.level, d.y, d.x),
         kw |-> [transform |-> "PlateCarree", zorder |-> 1]]

\* faulty variant: the barbs of the x-z section drawn from (u, v)
XZBarbsHorizontalWind(c) ==
    LET d == XZBarbDensity(c)
    IN  [op |-> "barbs",
         x |-> XZSlice(grid_x(c), c.level, d.z, d.x),
         y |-> XZSlice(grid_h(c), c.level, d.z, d.x),
         U |-> XZSlice(u(c), c.level, d.z, d.x),
         V |-> XZSlice(v(c), c.level, d.z, d.x)]

XZBarbs(c) ==
    LET d == XZBarbDensity(c)
    IN  [op |-> "barbs",
         x |-> XZSlice(grid_x(c), c.level, d.z, d.x),
         y |-> XZSlice(grid_h(c), c.level, d.z, d.x),
         U |-> XZSlice(u(c), c.level, d.z, d.x),
         V |-> XZSlice(w(c), c.level, d.z, d.x)]

YZBarbs(c) ==
    LET d == YZBarbDensity(c)
    IN  [op |-> "barbs",
         x |-> YZSlice(grid_y(c), c.level, d.z, d.x),
         y |-> YZSlice(grid_h(c), c.level, d.z, d.x),
         U |-> YZSlice(v(c), c.level, d.z, d.x),
         V |-> YZSlice(w(c), c.level, d.z, d.x)]

\* plt.colorbar(the_mesh, ax=ax, label=cp); cp.replace(" ", "_") is discarded
MeshColorbar(c) ==
    LET g == PyIndex(c.Grids.n, c.bg_grid_no)
    IN  [op |-> "colorbar", of |-> "mesh",
         label |-> <<LongName(c.Grids, g), " [", Units(c.Grids, g), "]">>]

\* ---------------------------------------------------- contour overlays
\* One overlay is ax.contour(...) and what the code does with its result cs:
\* cs.set_clim, cs.cmap.set_under, cs.cmap.set_bad, clabel and, with
\* colorbar_contour_flag, plt.colorbar(cs, ...).  clim and cbar are optional.
Overlay(what, x, y, data, levels, kw, clim, via, cbar) ==
    <<[op |-> "contour", what |-> what, x |-> x, y |-> y, data |-> data,
       levels |-> levels, kw |-> kw]>>
    \o (IF clim = None THEN <<>>
        ELSE <<[op |-> "set_clim", what |-> what,
                lo |-> SeqMin(clim[1]), hi |-> SeqMax(clim[1])]>>)
    \o <<[op |-> "set_under", what |-> what], [op |-> "set_bad", what |-> what],
         [op |-> "clabel", what |-> what, via |-> via]>>
    \o (IF cbar = None THEN <<>>
        ELSE <<[op |-> "colorbar", of |-> what, label |-> cbar[1].label, kw |-> cbar[1].kw]>>)

Cbar(c, label, kw) ==
    IF c.colorbar_contour_flag THEN Some([label |-> label, kw |-> kw]) ELSE None

PlainKw == [linewidths |-> 2]
MapKw == [linewidths |-> 2, zorder |-> 2, extend |-> "both"]
NoCbarKw == [extend |-> "neither"]
MinCbarKw == [extend |-> "min"]
MapCbarKw(ticks) == [extend |-> "both", spacing |-> "proportional", ticks |-> ticks]

\* plot_horiz_xsection_barbs
HorizContourU(c) ==
    Overlay("u", HFull(grid_x(c), c), HFull(grid_y(c), c), HFull(u(c), c),
            c.u_vel_contours, PlainKw, c.u_vel_contours, "ax",
            Cbar(c, "U [m/s]", NoCbarKw))

HorizContourV(c) ==
    Overlay("v", HFull(grid_x(c), c), HFull(grid_y(c), c), HFull(v(c), c),
            c.u_vel_contours, PlainKw, c.v_vel_contours, "ax",
            Cbar(c, "V [m/s]", NoCbarKw))

HorizContourW(c) ==
    Overlay("w", HFull(grid_x(c), c), HFull(grid_y(c), c), HFull(w(c), c),
            c.w_vel_contours, PlainKw, c.w_vel_contours, "ax",
            Cbar(c, "W [m/s]", NoCbarKw))

HorizContourWind(c) ==
    Overlay("wind", HFull(grid_x(c), c), HFull(grid_y(c), c),
            Speed(HFull(u(c), c), HFull(v(c), c)),
            c.wind_vel_contours, PlainKw, c.wind_vel_contours, "ax",
            Cbar(c, "|V| [m/s]", NoCbarKw))

\* plot_horiz_xsection_barbs_map
MapContourU(c) ==
    Overlay("u", grid_lon(c), grid_lat(c),
            MaskedBelow(HFull(u(c), c), SeqMin(c.u_vel_contours[1])),
            c.u_vel_contours, MapKw, c.u_vel_contours, "ax",
            Cbar(c, "U [m/s]", MapCbarKw(None)))

MapContourV(c) ==
    Overlay("v", grid_lon(c), grid_lat(c),
            MaskedBelow(HFull(v(c), c), SeqMin(c.v_vel_contours[1])),
            c.u_vel_contours, MapKw, c.v_vel_contours, "ax",
            Cbar(c, "V [m/s]", MapCbarKw(None)))

MapContourW(c) ==
    Overlay("w", grid_lon(c), grid_lat(c),
            MaskedBelow(HFull(w(c), c), SeqMin(c.w_vel_contours[1])),
            c.w_vel_contours, MapKw, c.w_vel_contours, "ax",
            Cbar(c, "W [m/s]", MapCbarKw(c.w_vel_contours)))

MapContourWind(c) ==
    Overlay("wind", HFull(grid_x(c), c), HFull(grid_y(c), c),
            Speed(HFull(u(c), c), HFull(v(c), c)),
            c.wind_vel_contours, PlainKw, None, "ax",
            Cbar(c, "|V\\ [m/s]", MapCbarKw(c.w_vel_contours)))

\* plot_xz_xsection_barbs
XZContourU(c) ==
    Overlay("u", XZFull(grid_x(c), c), XZFull(grid_h(c), c), XZFull(u(c), c),
            c.u_vel_contours, PlainKw, c.u_vel_contours, "ax",
            Cbar(c, "U [m/s]", MinCbarKw))

XZContourV(c) ==
    Overlay("v", XZFull(grid_x(c), c), XZFull(grid_h(c), c), XZFull(w(c), c),
            c.v_vel_contours, PlainKw, c.v_vel_contours, "ax",
            Cbar(c, "V [m/s]", MinCbarKw))

XZContourW(c) ==
    Overlay("w", XZFull(grid_x(c), c), XZFull(grid_h(c), c), XZFull(w(c), c),
            c.w_vel_contours, PlainKw, c.w_vel_contours, "ax",
            Cbar(c, "W [m/s]", MinCbarKw))

XZContourWind(c) ==
    Overlay("wind", XZFull(grid_x(c), c), XZFull(grid_h(c), c),
            Speed(XZFull(u(c), c), XZFull(v(c), c)),
            c.wind_vel_contours, PlainKw, c.wind_vel_contours, "ax",
            Cbar(c, "|V| [m/s]", NoCbarKw))

\* plot_yz_xsection_barbs
YZContourU(c) ==
    Overlay("u", YZFull(grid_y(c), c), YZFull(grid_h(c), c), YZFull(u(c), c),
            c.u_vel_contours, PlainKw, c.u_vel_contours, "plt",
            Cbar(c, "U [m/s]", MinCbarKw))

YZContourV(c) ==
    Overlay("v", YZFull(grid_y(c), c), YZFull(grid_h(c), c), YZFull(v(c), c),
            c.v_vel_contours, PlainKw, c.v_vel_contours, "plt",
            Cbar(c, "V [m/s]", MinCbarKw))

YZContourW(c) ==
    Overlay("w", YZFull(grid_y(c), c), YZFull(grid_h(c), c), YZFull(w(c), c),
            c.w_vel_contours, PlainKw, c.w_vel_contours, "plt",
            Cbar(c, "W [m/s]", MinCbarKw))

YZContourWind(c) ==
    Overlay("wind", YZFull(grid_y(c), c), YZFull(grid_h(c), c),
            Speed(YZFull(u(c), c), YZFull(v(c), c)),
            c.wind_vel_contours, PlainKw, c.wind_vel_contours, "ax",
            Cbar(c, "|V| [m/s]", NoCbarKw))

\* the argument that switches an overlay on, and the overlay's operations
OverlayNames == <<"u", "v", "w", "wind">>

OverlayArg(c, what) ==
    CASE what = "u" -> c.u_vel_contours
      [] what = "v" -> c.v_vel_contours
      [] what = "w" -> c.w_vel_contours
      [] OTHER -> c.wind_vel_contours

OverlayOps(c, what) ==
    CASE c.func = "horiz" /\ what = "u" -> HorizContourU(c)
      [] c.func = "horiz" /\ what = "v" -> HorizContourV(c)
      [] c.func = "horiz" /\ what = "w" -> HorizContourW(c)
      [] c.func = "horiz" /\ what = "wind" -> HorizContourWind(c)
      [] c.func = "map" /\ what = "u" -> MapContourU(c)
      [] c.func = "map" /\ what = "v" -> MapContourV(c)
      [] c.func = "map" /\ what = "w" -> MapContourW(c)
      [] c.func = "map" /\ what = "wind" -> MapContourWind(c)
      [] c.func = "xz" /\ what = "u" -> XZContourU(c)
      [] c.func = "xz" /\ what = "v" -> XZContourV(c)
      [] c.func = "xz" /\ what = "w" -> XZContourW(c)
      [] c.func = "xz" /\ what = "wind" -> XZContourWind(c)
      [] c.func = "yz" /\ what = "u" -> YZContourU(c)
      [] c.func = "yz" /\ what = "v" -> YZContourV(c)
      [] c.func = "yz" /\ what = "w" -> YZContourW(c)
      [] OTHER -> YZContourWind(c)

\* faulty variant: no function wraps its overlays in try/except
CatchesNothing(func) == FALSE

\* except ValueError: only plot_horiz_xsection_barbs_map wraps its overlays
CatchesValueError(func) == func = "map"

\* the RuntimeWarning issued for a failed overlay
OverlayWarning(what) ==
    [category |-> "RuntimeWarning", overlay |-> what,
     message |-> IF what \in {"u", "v"}
                 THEN "Cartopy does not support blank contour plots, contour color map not drawn!"
                 ELSE "Cartopy does not support color maps on blank contour plots, contour color map not drawn!"]

\* ------------------------------------------------------ dual-Doppler lobes
\* math.radians(Grids[0].fields[u_field]["min_bca"]) and ["max_bca"]
bca_min(c) == Radians(c.Grids.bca[1])
bca_max(c) == Radians(c.Grids.bca[2])

\* for i in range(len(Grids)): for j in range(len(Grids)): the iteration after (i, j)
LoopNext(n, i, j) == IF j + 1 < n THEN <<i, j + 1>> ELSE <<i + 1, 0>>

\* faulty variant: each unordered pair of grids drawn once
LobePairOnce(i, j) == i < j

\* if i != j
LobePair(i, j) == i # j

HorizLobe(c, i, j) ==
    [op |-> "contour", what |-> "lobe",
     x |-> HFull(grid_x(c), c), y |-> HFull(grid_y(c), c),
     data |-> get_bca(c.Grids, j, i),
     levels |-> Some(<<bca_min(c), bca_max(c)>>), kw |-> [color |-> "k"]]

MapLobe(c, i, j) ==
    [op |-> "contour", what |-> "lobe",
     x |-> grid_lon(c), y |-> grid_lat(c),
     data |-> get_bca(c.Grids, j, i),
     levels |-> Some(<<bca_min(c), bca_max(c)>>), kw |-> [color |-> "k", zorder |-> 1]]

\* --------------------------------------------- labels, title, limits, ticks
Label(which, text) == [op |-> which, text |-> text]

HorizLabels(c) == <<Label("set_xlabel", "X [km]"), Label("set_ylabel", "Y [km]")>>
MapLabels(c) ==
    <<Label("set_xlabel", "Latitude [$\\degree$]"), Label("set_ylabel", "Longitude [$\\degree$]")>>
XZLabels(c) == <<Label("set_xlabel", "X [km]"), Label("set_ylabel", "Z [km]")>>
YZLabels(c) == <<Label("set_xlabel", "Y [km]"), Label("set_ylabel", "Z [km]")>>

HorizTitle(c) ==
    Label("set_title", <<"PyDDA retreived winds @", grid_h(c)[c.level][0][0], " km">>)

XZTitle(c) ==
    LET y0 == grid_y(c)[0][c.level][0]
    IN  IF y0 > 0
        THEN Label("set_title", <<"PyDDA retreived winds @", y0, " km north of origin.">>)
        ELSE Label("set_title", <<"PyDDA retreived winds @", -y0, " km south of origin.">>)

YZTitle(c) ==
    LET x0 == grid_x(c)[0][0][c.level]
    IN  IF x0 > 0
        THEN Label("set_title", <<"PyDDA retreived winds @", x0, " km east of origin.">>)
        ELSE Label("set_title", <<"PyDDA retreived winds @", -x0, " km west of origin.">>)

Lim(which, a3) == [op |-> which, lo |-> SetMin(Values3(a3)), hi |-> SetMax(Values3(a3))]

HorizLimits(c) == <<Lim("set_xlim", grid_x(c)), Lim("set_ylim", grid_y(c))>>
XZLimits(c) == <<Lim("set_xlim", grid_x(c)), Lim("set_ylim", grid_h(c))>>
YZLimits(c) == <<Lim("set_xlim", grid_y(c)), Lim("set_ylim", grid_h(c))>>

\* np.round(np.linspace(lo, hi, num), 1), in tenths of a degree
Linspace(lo, hi, num) ==
    IF num = 1 THEN <<lo>> ELSE [n \in 1..num |-> lo + ((n - 1) * (hi - lo)) \div (num - 1)]

\* int(round((hi - lo) * 10) + 1) for hi, lo in degrees
NumTenths(lo, hi) == (hi - lo) + 1

MapFinish(c) ==
    LET lon_min == SetMin(Values2(grid_lon(c)))
        lon_max == SetMax(Values2(grid_lon(c)))
        lat_min == SetMin(Values2(grid_lat(c)))
        lat_max == SetMax(Values2(grid_lat(c)))
    IN  (IF c.coastlines THEN <<[op |-> "coastlines", resolution |-> "10m"]>> ELSE <<>>)
        \o (IF c.gridlines THEN <<[op |-> "gridlines"]>> ELSE <<>>)
        \o <<[op |-> "set_extent", extent |-> <<lon_min, lon_max, lat_min, lat_max>>],
             [op |-> "set_xticks", ticks |-> Linspace(lon_min, lon_max, NumTenths(lon_min, lon_max))],
             [op |-> "set_yticks", ticks |-> Linspace(lat_min, lat_max, NumTenths(lat_min, lat_max))]>>

\* ------------------------------------------------------------ dispatch
MeshOp(c) ==
    CASE c.func = "horiz" -> HorizMesh(c)
      [] c.func = "map" -> MapMesh(c)
      [] c.func = "xz" -> XZMesh(c)
      [] OTHER -> YZMesh(c)

BarbsOp(c) ==
    CASE c.func = "horiz" -> HorizBarbs(c)
      [] c.func = "map" -> MapBarbs(c)
      [] c.func = "xz" -> XZBarbs(c)
      [] OTHER -> YZBarbs(c)

LobeOp(c, i, j) == IF c.func = "map" THEN MapLobe(c, i, j) ELSE HorizLobe(c, i, j)

LabelOps(c) ==
    CASE c.func = "horiz" -> HorizLabels(c)
      [] c.func = "map" -> MapLabels(c)
      [] c.func = "xz" -> XZLabels(c)
      [] OTHER -> YZLabels(c)

TitleOp(c) ==
    CASE c.func \in {"horiz", "map"} -> HorizTitle(c)
      [] c.func = "xz" -> XZTitle(c)
      [] OTHER -> YZTitle(c)

FinishOps(c) ==
    CASE c.func = "horiz" -> HorizLimits(c)
      [] c.func = "map" -> MapFinish(c)
      [] c.func = "xz" -> XZLimits(c)
      [] OTHER -> YZLimits(c)

HasLobes(func) == func \in {"horiz", "map"}

\* --------------------------------------------------------- pyplot's state
\* cur_ax is pyplot's current axes: 0 while there is none, else the id of the
\* axes pyplot created last (101, 102, ...).  Axes the caller passes are 1, 2.
NewAxes(cur) == IF cur = 0 THEN 101 ELSE cur + 1

\* plt.gca(): the current axes, created when there is none
Gca(cur) == IF cur = 0 THEN NewAxes(cur) ELSE cur

\* faulty variant: pyplot's current axes win over the ax argument
ResolveAxCurrent(c, cur) ==
    IF cur # 0 THEN cur
    ELSE IF c.ax # None THEN c.ax[1]
    ELSE NewAxes(cur)

\* if ax is None: ax = plt.gca()   (map: ax = plt.axes(projection=transform))
ResolveAx(c, cur) ==
    IF c.ax # None THEN c.ax[1]
    ELSE IF c.func = "map" THEN NewAxes(cur)
    ELSE Gca(cur)

PyplotAfterResolve(c, cur) == IF c.ax = None THEN ResolveAx(c, cur) ELSE cur

\* plt.clabel(cs) in plot_yz_xsection_barbs goes through plt.gca()
PyplotAfterOverlay(c, what, cur) ==
    IF c.func = "yz" /\ what # "wind" THEN Gca(cur) ELSE cur

\* ------------------------------------------------------------- the calls
LevelsA == <<10, 20>>
LevelsB == <<15, 30, 45>>
ContourChoices == {None, Some(LevelsA), Some(LevelsB)}

DefaultGrids ==
    [n |-> IF MaxGrids >= 2 THEN 2 ELSE 1, dx |-> 1, dy |-> 1, dh |-> 1,
     bg |-> <<1, 2>>, bca |-> <<30, 150>>]

\* the signature defaults, except ax (an axis of the caller's) and the barb
\* spacings (10 km and 1 km in the signature; 1 km here, one grid step)
Default(f) ==
    [func |-> f, Grids |-> DefaultGrids, ax |-> Some(1),
     background_field |-> "reflectivity", level |-> 1,
     cmap |-> "pyart_LangRainbow12", vmin |-> None, vmax |-> None,
     u_vel_contours |-> None, v_vel_contours |-> None,
     w_vel_contours |-> None, wind_vel_contours |-> None,
     u_field |-> "u", v_field |-> "v", w_field |-> "w",
     show_lobes |-> TRUE, title_flag |-> TRUE, axes_labels_flag |-> TRUE,
     colorbar_flag |-> TRUE, colorbar_contour_flag |-> FALSE, bg_grid_no |-> 0,
     barb_spacing_x_km |-> 1, barb_spacing_y_km |-> 1, barb_spacing_z_km |-> 1,
     contour_alpha |-> 70, coastlines |-> TRUE, gridlines |-> TRUE]

NoCall == Default("none")

\* the valid values of level: an index of the axis the function slices
LevelsOf(f) ==
    CASE f \in {"horiz", "map"} -> 0..(NZ - 1)
      [] f = "xz" -> 0..(NY - 1)
      [] OTHER -> 0..(NX - 1)

ContourCalls ==
    {[Default(f) EXCEPT !.u_vel_contours = cu, !.v_vel_contours = cv,
                        !.w_vel_contours = cw, !.wind_vel_contours = cs,
                        !.colorbar_contour_flag = cb] :
        f \in FuncNames, cu \in ContourChoices, cv \in ContourChoices,
        cw \in {None, Some(LevelsA)}, cs \in {None, Some(LevelsA)}, cb \in BOOLEAN}

AlphaCalls ==
    {[Default("horiz") EXCEPT !.u_vel_contours = cu, !.v_vel_contours = cv,
                              !.wind_vel_contours = cs, !.contour_alpha = 20] :
        cu \in ContourChoices, cv \in ContourChoices, cs \in {None, Some(LevelsA)}}

BackgroundCalls ==
    UNION {UNION {
        {[Default(f) EXCEPT !.Grids = [DefaultGrids EXCEPT !.n = n, !.bg = bg],
                            !.bg_grid_no = b, !.level = l, !.show_lobes = sl] :
            bg \in [1..n -> 1..3], b \in (-1)..(n - 1), l \in LevelsOf(f),
            sl \in IF HasLobes(f) THEN BOOLEAN ELSE {TRUE}}
        : n \in 1..MaxGrids} : f \in FuncNames}

LobeCalls ==
    {[Default(f) EXCEPT !.Grids = [DefaultGrids EXCEPT !.bca = <<20, 160>>]] :
        f \in {"horiz", "map"}}

SpacingChoices == {<<1, 1, 1>>, <<1, 2, 1>>, <<2, 1, 1>>, <<1, 1, 2>>, <<49, 49, 1>>}
BarbSpacings == {1, 2, 4, 49}

BarbCalls ==
    {[Default(f) EXCEPT !.Grids = [DefaultGrids EXCEPT !.dx = sp[1], !.dy = sp[2], !.dh = sp[3]],
                        !.barb_spacing_x_km = IF f = "yz" THEN 1 ELSE s1,
                        !.barb_spacing_y_km = IF f = "xz" THEN 1 ELSE IF f = "yz" THEN s1 ELSE s2,
                        !.barb_spacing_z_km = IF f \in {"xz", "yz"} THEN s2 ELSE 1] :
        f \in FuncNames, sp \in SpacingChoices, s1 \in BarbSpacings, s2 \in BarbSpacings}

FlagCalls ==
    {[Default(f) EXCEPT !.title_flag = tf, !.axes_labels_flag = lf, !.colorbar_flag = cf,
                        !.ax = a, !.vmin = lim[1], !.vmax = lim[2]] :
        f \in FuncNames, tf \in BOOLEAN, lf \in BOOLEAN, cf \in BOOLEAN,
        a \in {None, Some(1), Some(2)}, lim \in {<<None, None>>, <<Some(2), Some(9)>>}}

MapDecorCalls ==
    {[Default("map") EXCEPT !.coastlines = cl, !.gridlines = gl] : cl \in BOOLEAN, gl \in BOOLEAN}

Calls ==
    ContourCalls \cup AlphaCalls \cup BackgroundCalls \cup LobeCalls
    \cup BarbCalls \cup FlagCalls \cup MapDecorCalls

\* ------------------------------------------------------------------ state
VARIABLES
    CARTOPY_AVAILABLE,  \* the module global set at import
    cur_ax,             \* pyplot's current axes
    pc,                 \* "idle", the step of the running call, or "done"
    call,               \* the arguments of the running call
    ax,                 \* the local ax: the axis drawn on (0 before it is set)
    ops,                \* the drawing operations issued so far by this call
    warned,             \* the warnings issued so far by this call
    raised,             \* the exception leaving the call, if any
    ret,                \* the value returned (0: nothing yet)
    li, lj,             \* the lobe loop's i and j
    ref                 \* an earlier call kept for comparison (SpecRepeat)

vars == <<CARTOPY_AVAILABLE, cur_ax, pc, call, ax, ops, warned, raised, ret, li, lj, ref>>

NoError == [type |-> "none", at |-> "none"]
NoRef ==
    [call |-> NoCall, ax |-> 0, ops |-> <<>>, warned |-> <<>>, raised |-> NoError,
     ret |-> 0, cur_ax |-> 0]

\* import pydda.vis.barb_plot: cartopy imported, nothing plotted yet
Init ==
    /\ CARTOPY_AVAILABLE = TRUE
    /\ cur_ax = 0
    /\ pc = "idle"
    /\ call = NoCall
    /\ ax = 0
    /\ ops = <<>>
    /\ warned = <<>>
    /\ raised = NoError
    /\ ret = 0
    /\ li = 0
    /\ lj = 0
    /\ ref = NoRef

\* the statements before the first drawing call
Enter(c) ==
    /\ pc = "idle"
    /\ PyplotAfterResolve(c, cur_ax) <= 100 + MaxAxes
    /\ call' = c
    /\ IF ~CARTOPY_AVAILABLE /\ c.func \in {"map", "xz"}
       THEN /\ raised' = [type |-> "ModuleNotFoundError", at |-> "import"]
            /\ pc' = "done"
            /\ UNCHANGED <<ax, cur_ax>>
       ELSE /\ ax' = ResolveAx(c, cur_ax)
            /\ cur_ax' = PyplotAfterResolve(c, cur_ax)
            /\ pc' = "mesh"
            /\ UNCHANGED raised
    /\ UNCHANGED <<CARTOPY_AVAILABLE, ops, warned, ret, li, lj, ref>>

Call == \E c \in Calls : Enter(c)

Mesh ==
    /\ pc = "mesh"
    /\ ops' = Append(ops, MeshOp(call))
    /\ pc' = "barbs"
    /\ UNCHANGED <<CARTOPY_AVAILABLE, cur_ax, call, ax, warned, raised, ret, li, lj, ref>>

Barbs ==
    /\ pc = "barbs"
    /\ IF 0 \in BarbStepsOf(call)
       THEN /\ raised' = [type |-> "ValueError", at |-> "barbs"]
            /\ pc' = "done"
            /\ UNCHANGED ops
       ELSE /\ ops' = Append(ops, BarbsOp(call))
            /\ pc' = "colorbar"
            /\ UNCHANGED raised
    /\ UNCHANGED <<CARTOPY_AVAILABLE, cur_ax, call, ax, warned, ret, li, lj, ref>>

Colorbar ==
    /\ pc = "colorbar"
    /\ ops' = IF call.colorbar_flag THEN Append(ops, MeshColorbar(call)) ELSE ops
    /\ pc' = "u"
    /\ UNCHANGED <<CARTOPY_AVAILABLE, cur_ax, call, ax, warned, raised, ret, li, lj, ref>>

AfterOverlay(c, what) ==
    CASE what = "u" -> "v"
      [] what = "v" -> "w"
      [] what = "w" -> "wind"
      [] OTHER -> IF HasLobes(c.func) THEN "lobes" ELSE "labels"

\* one overlay block; ax.contour either succeeds or raises ValueError
Contour(what) ==
    /\ pc = what
    /\ IF OverlayArg(call, what) = None
       THEN /\ pc' = AfterOverlay(call, what)
            /\ UNCHANGED <<ops, warned, raised, cur_ax>>
       ELSE \E outcome \in {"ok", "ValueError"} :
            IF outcome = "ok"
            THEN /\ ops' = ops \o OverlayOps(call, what)
                 /\ cur_ax' = PyplotAfterOverlay(call, what, cur_ax)
                 /\ pc' = AfterOverlay(call, what)
                 /\ UNCHANGED <<warned, raised>>
            ELSE IF CatchesValueError(call.func)
            THEN /\ warned' = Append(warned, OverlayWarning(what))
                 /\ pc' = AfterOverlay(call, what)
                 /\ UNCHANGED <<ops, raised, cur_ax>>
            ELSE /\ raised' = [type |-> "ValueError", at |-> what]
                 /\ pc' = "done"
                 /\ UNCHANGED <<ops, warned, cur_ax>>
    /\ UNCHANGED <<CARTOPY_AVAILABLE, call, ax, ret, li, lj, ref>>

ContourU == Contour("u")
ContourV == Contour("v")
ContourW == Contour("w")
ContourWind == Contour("wind")

\* one pass of the inner loop body, or the exit when the loops are over
Lobes ==
    /\ pc = "lobes"
    /\ IF call.show_lobes /\ li < call.Grids.n
       THEN /\ ops' = IF LobePair(li, lj) THEN Append(ops, LobeOp(call, li, lj)) ELSE ops
            /\ li' = LoopNext(call.Grids.n, li, lj)[1]
            /\ lj' = LoopNext(call.Grids.n, li, lj)[2]
            /\ UNCHANGED pc
       ELSE /\ pc' = "labels"
            /\ UNCHANGED <<ops, li, lj>>
    /\ UNCHANGED <<CARTOPY_AVAILABLE, cur_ax, call, ax, warned, raised, ret, ref>>

Labels ==
    /\ pc = "labels"
    /\ ops' = IF call.axes_labels_flag THEN ops \o LabelOps(call) ELSE ops
    /\ pc' = "title"
    /\ UNCHANGED <<CARTOPY_AVAILABLE, cur_ax, call, ax, warned, raised, ret, li, lj, ref>>

Title ==
    /\ pc = "title"
    /\ ops' = IF call.title_flag THEN Append(ops, TitleOp(call)) ELSE ops
    /\ pc' = "finish"
    /\ UNCHANGED <<CARTOPY_AVAILABLE, cur_ax, call, ax, warned, raised, ret, li, lj, ref>>

\* limits (map: coastlines, gridlines, extent, ticks) and return ax
Finish ==
    /\ pc = "finish"
    /\ ops' = ops \o FinishOps(call)
    /\ ret' = ax
    /\ pc' = "done"
    /\ UNCHANGED <<CARTOPY_AVAILABLE, cur_ax, call, ax, warned, raised, li, lj, ref>>

\* the caller takes the result; the call's frame is gone
Return ==
    /\ pc = "done"
    /\ pc' = "idle"
    /\ call' = NoCall
    /\ ax' = 0
    /\ ops' = <<>>
    /\ warned' = <<>>
    /\ raised' = NoError
    /\ ret' = 0
    /\ li' = 0
    /\ lj' = 0
    /\ UNCHANGED <<CARTOPY_AVAILABLE, cur_ax, ref>>

Next ==
    \/ Call
    \/ Mesh
    \/ Barbs
    \/ Colorbar
    \/ ContourU
    \/ ContourV
    \/ ContourW
    \/ ContourWind
    \/ Lobes
    \/ Labels
    \/ Title
    \/ Finish
    \/ Return

Spec == Init /\ [][Next]_vars

\* ------------------------------------------- the same call made twice
\* A caller that keeps what one finished call did, to compare a later call
\* with it.
RepeatCalls ==
    {[Default(f) EXCEPT !.ax = a, !.u_vel_contours = cu] :
        f \in FuncNames, a \in {None, Some(1)}, cu \in {None, Some(LevelsA)}}

CallRepeat == \E c \in RepeatCalls : Enter(c)

Keep ==
    /\ pc = "done"
    /\ ref = NoRef
    /\ ref' = [call |-> call, ax |-> ax, ops |-> ops, warned |-> warned,
               raised |-> raised, ret |-> ret, cur_ax |-> cur_ax]
    /\ UNCHANGED <<CARTOPY_AVAILABLE, cur_ax, pc, call, ax, ops, warned, raised, ret, li, lj>>

NextRepeat ==
    \/ CallRepeat
    \/ Mesh
    \/ Barbs
    \/ Colorbar
    \/ ContourU
    \/ ContourV
    \/ ContourW
    \/ ContourWind
    \/ Lobes
    \/ Labels
    \/ Title
    \/ Finish
    \/ Return
    \/ Keep

SpecRepeat == Init /\ [][NextRepeat]_vars

\* ================================================================ claims
IsContour(o, what) == o.op = "contour" /\ o.what = what
OpIndices(kind) == {n \in DOMAIN ops : ops[n].op = kind}
ContourIndices(what) == {n \in DOMAIN ops : IsContour(ops[n], what)}
Running == pc # "idle"
Completed == pc = "done" /\ raised = NoError

\* the 3-D index of element (r, col) of func's full cross-section at level
SectionK(f, level, r, col) == IF f \in {"horiz", "map"} THEN level ELSE r
SectionJ(f, level, r, col) == IF f \in {"horiz", "map"} THEN r ELSE IF f = "xz" THEN level ELSE col
SectionI(f, level, r, col) == IF f = "yz" THEN level ELSE col
SectionRows(f) == IF f \in {"horiz", "map"} THEN 0..(NY - 1) ELSE 0..(NZ - 1)
SectionCols(f) == IF f = "yz" THEN 0..(NY - 1) ELSE 0..(NX - 1)

\* a3 on func's cross-section at level, rows and columns taken every kr, kc
Section(a3, f, level, kr, kc) ==
    [r \in {q \in SectionRows(f) : q * kr \in SectionRows(f)} |->
        [col \in {q \in SectionCols(f) : q * kc \in SectionCols(f)} |->
            a3[SectionK(f, level, r * kr, col * kc)]
              [SectionJ(f, level, r * kr, col * kc)]
              [SectionI(f, level, r * kr, col * kc)]]]

GridField(name) == FieldData(call.Grids, 0, name)

\* C1: in plot_horiz_xsection_barbs and plot_horiz_xsection_barbs_map the
\* v-wind contours are drawn at exactly the levels given in v_vel_contours,
\* whatever u_vel_contours is.
C1_VContourLevels ==
    call.func \in {"horiz", "map"} =>
        \A n \in ContourIndices("v") : ops[n].levels = call.v_vel_contours

\* C2: in plot_xz_xsection_barbs and plot_yz_xsection_barbs the array
\* contoured for v_vel_contours is the v field of Grids[0] on the plotted
\* slice.
C2_VContourData ==
    call.func \in {"xz", "yz"} =>
        \A n \in ContourIndices("v") :
            ops[n].data = Section(GridField("v"), call.func, call.level, 1, 1)

\* the background value the docstring specifies at grid point (k, j, i)
BackgroundAt(k, j, i) ==
    LET of(g) == FieldData(call.Grids, g, "reflectivity")[k][j][i]
    IN  IF call.bg_grid_no >= 0 THEN of(call.bg_grid_no)
        ELSE SetMax({of(g) : g \in 0..(call.Grids.n - 1)})

\* C3: bg_grid_no >= 0 draws the background field of Grids[bg_grid_no]
\* unchanged; bg_grid_no = -1 draws, at every grid point, the maximum of the
\* point's background value over all grids; the colour limits default to the
\* extremes of that background over the whole grid.
C3_Background ==
    \A n \in OpIndices("pcolormesh") :
        /\ ops[n].data = Section(Array3(BackgroundAt), call.func, call.level, 1, 1)
        /\ call.vmin = None => ops[n].kw.vmin = SetMin(Values3(Array3(BackgroundAt)))
        /\ call.vmax = None => ops[n].kw.vmax = SetMax(Values3(Array3(BackgroundAt)))

C3_Witness ==
    /\ Completed
    /\ call.bg_grid_no = -1
    /\ call.Grids.n >= 2
    /\ \E n \in OpIndices("pcolormesh") :
        \A g \in 0..(call.Grids.n - 1) :
            ops[n].data # Section(FieldData(call.Grids, g, "reflectivity"),
                                  call.func, call.level, 1, 1)

\* x is deg degrees in microradians (math.radians)
IsRadians(x, deg) == x * 180 <= deg * 3141593 /\ deg * 3141593 < (x + 1) * 180

LobesDone(o) ==
    LET n == call.Grids.n
        lobes == {m \in DOMAIN o : IsContour(o[m], "lobe")}
    IN  IF call.show_lobes
        THEN /\ Cardinality(lobes) = n * (n - 1)
             /\ \A i \in 0..(n - 1) : \A j \in 0..(n - 1) :
                    Cardinality({m \in lobes : o[m].data = get_bca(call.Grids, j, i)})
                        = IF i # j THEN 1 ELSE 0
             /\ \A m \in lobes :
                    /\ Len(o[m].levels[1]) = 2
                    /\ IsRadians(o[m].levels[1][1], call.Grids.bca[1])
                    /\ IsRadians(o[m].levels[1][2], call.Grids.bca[2])
        ELSE lobes = {}

LoopVariant(i, j) == call.Grids.n * call.Grids.n - (i * call.Grids.n + j)

\* C4: with N grids and show_lobes True one lobe contour is drawn per ordered
\* pair (i, j), i # j, N * (N - 1) in all, each at the levels
\* [min_bca, max_bca] of Grids[0] in radians; with show_lobes False none is
\* drawn; and every pass of the double loop brings it nearer its end.
C4_Lobes ==
    [][/\ (pc = "lobes" /\ pc' = "lobes") =>
            /\ LoopVariant(li', lj') < LoopVariant(li, lj)
            /\ LoopVariant(li', lj') >= 0
       /\ (pc = "lobes" /\ pc' # "lobes") => (pc' = "labels" /\ LobesDone(ops'))]_vars

C4_Witness ==
    /\ pc = "labels"
    /\ call.func = "map"
    /\ call.show_lobes
    /\ call.Grids.n >= 2
    /\ Cardinality(ContourIndices("lobe")) = call.Grids.n * (call.Grids.n - 1)

\* the barbs every k-th row and column that the docstrings specify, for
\* spacings given in km: k = spacing / grid spacing
BarbsAsSpecified(o, kr, kc, p, q) ==
    /\ kr >= 1
    /\ kc >= 1
    /\ o.U = Section(GridField(p), call.func, call.level, kr, kc)
    /\ o.V = Section(GridField(q), call.func, call.level, kr, kc)

\* C5: in plot_xz_xsection_barbs and plot_yz_xsection_barbs the barbs are
\* barb_spacing_z_km apart vertically (stride: barb_spacing_z_km over the
\* vertical grid spacing), and in plot_yz_xsection_barbs barb_spacing_y_km
\* apart along y (stride: barb_spacing_y_km over the y grid spacing).
C5_VerticalBarbSpacing ==
    (/\ call.barb_spacing_x_km >= call.Grids.dx
     /\ call.barb_spacing_y_km >= call.Grids.dy
     /\ call.barb_spacing_z_km >= call.Grids.dh) =>
    \A n \in OpIndices("barbs") :
        /\ call.func = "xz" =>
              BarbsAsSpecified(ops[n], call.barb_spacing_z_km \div call.Grids.dh,
                               call.barb_spacing_x_km \div call.Grids.dx, "u", "w")
        /\ call.func = "yz" =>
              BarbsAsSpecified(ops[n], call.barb_spacing_z_km \div call.Grids.dh,
                               call.barb_spacing_y_km \div call.Grids.dy, "v", "w")

\* C6: in plot_horiz_xsection_barbs, with barb spacings sx >= dx and
\* sy >= dy, barbs are placed at exactly the grid points whose x index is a
\* multiple of floor(sx / dx) and whose y index is a multiple of
\* floor(sy / dy), positions and (u, v) values at the same indices.
C6_HorizBarbGrid ==
    (/\ call.func = "horiz"
     /\ call.barb_spacing_x_km >= call.Grids.dx
     /\ call.barb_spacing_y_km >= call.Grids.dy
     /\ pc \notin {"idle", "mesh", "barbs"}) =>
        /\ raised.at # "barbs"
        /\ \A n \in OpIndices("barbs") :
            LET ky == call.barb_spacing_y_km \div call.Grids.dy
                kx == call.barb_spacing_x_km \div call.Grids.dx
            IN  /\ BarbsAsSpecified(ops[n], ky, kx, "u", "v")
                /\ ops[n].x = Section(grid_x(call), "horiz", call.level, ky, kx)
                /\ ops[n].y = Section(grid_y(call), "horiz", call.level, ky, kx)

\* C7: the cross-section is taken at index level along axis 0 (horizontal),
\* axis 1 (x-z) or axis 2 (y-z), for the mesh and the barbs alike, and the
\* barbs are those of (u, v), (u, w) and (v, w).
C7_CrossSection ==
    call.func \in {"horiz", "xz", "yz"} =>
        /\ \A n \in OpIndices("pcolormesh") :
              ops[n].data = Section(Array3(BackgroundAt), call.func, call.level, 1, 1)
        /\ \A n \in OpIndices("barbs") :
              \E kr \in 1..NCells : \E kc \in 1..NCells :
                  BarbsAsSpecified(ops[n], kr, kc,
                                   IF call.func = "yz" THEN "v" ELSE "u",
                                   IF call.func = "horiz" THEN "v" ELSE "w")

C7_Witness ==
    /\ Completed
    /\ call.func = "xz"
    /\ call.level = 2
    /\ OpIndices("barbs") # {}
    /\ OpIndices("pcolormesh") # {}

\* C8: in plot_horiz_xsection_barbs the u, v, w and wind-speed contours are
\* drawn with alpha equal to the contour_alpha argument.
C8_ContourAlpha ==
    call.func = "horiz" =>
        \A n \in OpIndices("contour") :
            ops[n].what \in {"u", "v", "w", "wind"} =>
                /\ "alpha" \in DOMAIN ops[n].kw
                /\ ops[n].kw.alpha = call.contour_alpha

OverlayRank(what) == CHOOSE n \in DOMAIN OverlayNames : OverlayNames[n] = what
OverlaySet == {OverlayNames[n] : n \in DOMAIN OverlayNames}
WarningsFor(what) == {n \in DOMAIN warned : warned[n].overlay = what}

\* C9: in plot_horiz_xsection_barbs_map a ValueError from an overlay is
\* caught: one RuntimeWarning for that overlay, no exception leaves the call,
\* and the remaining overlays, the lobes, labels, title, extent and ticks
\* follow and ax is returned.  In the other three functions the ValueError
\* leaves the call: nothing is returned and no later step runs.
C9_ValueError ==
    /\ call.func = "map" =>
        /\ raised.at \notin OverlaySet
        /\ \A n \in DOMAIN warned : warned[n].category = "RuntimeWarning"
        /\ \A what \in OverlaySet :
              /\ Cardinality(WarningsFor(what)) <= 1
              /\ WarningsFor(what) # {} => ContourIndices(what) = {}
        /\ Completed =>
              /\ ret = ax
              /\ \A what \in OverlaySet :
                    OverlayArg(call, what) # None =>
                        Cardinality(WarningsFor(what)) + Cardinality(ContourIndices(what)) = 1
              /\ LobesDone(ops)
              /\ call.axes_labels_flag =>
                    (OpIndices("set_xlabel") # {} /\ OpIndices("set_ylabel") # {})
              /\ call.title_flag => OpIndices("set_title") # {}
              /\ OpIndices("set_extent") # {}
              /\ OpIndices("set_xticks") # {}
              /\ OpIndices("set_yticks") # {}
    /\ call.func \in {"horiz", "xz", "yz"} =>
        /\ warned = <<>>
        /\ raised.at \in OverlaySet =>
              /\ pc = "done"
              /\ raised.type = "ValueError"
              /\ ret = 0
              /\ \A n \in DOMAIN ops :
                    /\ ops[n].op \notin {"set_xlabel", "set_ylabel", "set_title",
                                         "set_xlim", "set_ylim"}
                    /\ ops[n].op = "contour" =>
                          /\ ops[n].what \in OverlaySet
                          /\ OverlayRank(ops[n].what) < OverlayRank(raised.at)

C9_Witness ==
    /\ Completed
    /\ call.func = "map"
    /\ Len(warned) >= 2
    /\ ret = ax
    /\ ContourIndices("lobe") # {}
    /\ ContourIndices("w") # {}

\* C10: the module keeps no state between calls: a call with the same
\* arguments and an explicit ax as an earlier call, meeting the same library
\* exceptions, issues the same operations with the same data on the same
\* axis and returns the same, whatever was plotted in between.
C10_NoPersistentState ==
    (/\ pc = "done"
     /\ ref.call = call
     /\ call.ax # None
     /\ ref.raised = raised
     /\ ref.warned = warned) =>
        /\ ops = ref.ops
        /\ ax = ref.ax
        /\ ret = ref.ret

C10_Witness ==
    /\ pc = "done"
    /\ ref.call = call
    /\ call.ax # None
    /\ ref.cur_ax # cur_ax
    /\ ops = ref.ops
    /\ Len(ops) >= 5
    /\ ret = ref.ret
    /\ ret # 0

\* the 2-D array a2 with rows taken every kr and columns every kc
Strided(a2, kr, kc) ==
    [r \in {q \in DOMAIN a2 : q * kr \in DOMAIN a2} |->
        [col \in {q \in DOMAIN a2[r * kr] : q * kc \in DOMAIN a2[r * kr]} |->
            a2[r * kr][col * kc]]]

\* the coordinate arrays the docstrings name for func's plot at the level
PlotX(c) ==
    CASE c.func = "map" -> Section(point_longitude(c.Grids, 0), "map", c.level, 1, 1)
      [] c.func = "yz" -> Section(grid_y(c), "yz", c.level, 1, 1)
      [] OTHER -> Section(grid_x(c), c.func, c.level, 1, 1)
PlotY(c) ==
    CASE c.func = "map" -> Section(point_latitude(c.Grids, 0), "map", c.level, 1, 1)
      [] c.func = "horiz" -> Section(grid_y(c), "horiz", c.level, 1, 1)
      [] OTHER -> Section(grid_h(c), c.func, c.level, 1, 1)

\* C11: within one call every overlay is drawn on the coordinate arrays of
\* the call's background mesh: longitude/latitude of the level in the map
\* function, x/y at the level in the horizontal one, x/altitude in x-z and
\* y/altitude in y-z; the barbs on a strided subgrid of them, the u, v, w,
\* wind-speed and lobe contours on the arrays themselves.
C11_SameCoordinates ==
    call.func \in FuncNames =>
        \A m \in OpIndices("pcolormesh") :
            /\ ops[m].x = PlotX(call)
            /\ ops[m].y = PlotY(call)
            /\ \A n \in OpIndices("barbs") :
                  \E kr \in 1..NCells : \E kc \in 1..NCells :
                      /\ ops[n].x = Strided(ops[m].x, kr, kc)
                      /\ ops[n].y = Strided(ops[m].y, kr, kc)
            /\ \A n \in OpIndices("contour") :
                  /\ ops[n].x = ops[m].x
                  /\ ops[n].y = ops[m].y

====
